---------------------------- MODULE Spec2Model ----------------------------
(***************************************************************************)
(* bulgakov-cache-script: the rate limiter (utils.SequenceLimit), the      *)
(* step renderer (download_step), the subject walker (download_subject)    *)
(* and the orchestrator (main), as one state machine; the path sanitizer   *)
(* (utils.santize_path) and the file naming of download_image as text      *)
(* functions applied to drawn strings.                                     *)
(*                                                                         *)
(* A task is one asyncio task (or one caller of a wrapped unit).  Its      *)
(* stack lists the decorated functions it is inside of, outermost first;   *)
(* pc is the await it is suspended at.  An action is what the event loop   *)
(* runs between two suspensions of a task.                                 *)
(***************************************************************************)
EXTENDS Integers, Sequences, FiniteSets, TLC

VARIABLES
    now,                    \* time.monotonic(), in ticks
    calls_limit,            \* SequenceLimit.calls_limit, per limiter instance
    period,                 \* SequenceLimit.period, per limiter instance
    semaphore,              \* SequenceLimit.semaphore: its free permits
    requests_finish_time,   \* SequenceLimit.requests_finish_time
    recent,                 \* history: times of the wrapped calls completed
                            \* during the last period, per limiter instance
    pc,                     \* per task: the suspension point
    stack,                  \* per task: the decorated calls it is inside of
    sleepUntil,             \* per task: deadline of its asyncio.sleep
    error,                  \* per task: the call whose exception ended it
    mainPc,                 \* main(): its suspension point
    mode,                   \* options.mode
    options_subject,        \* options.subject
    subjects,               \* main(): the list `subjects`
    token,                  \* main(): the token sign_in returned, if any
    page,                   \* get_list_of_subject_ids: `page`
    subject_ids,            \* get_list_of_subject_ids: `subject_ids`
    requested,              \* history: the pages requested, in order
    remote_enrolled,        \* the platform: page -> ids of the user's subjects
    remote_last_page,       \* the platform: page -> last_page of its response
    remote_subjects,        \* the platform: subject id -> subject record
    remote_steps,           \* the platform: step id -> step record
    disk,                   \* the paths present under options.out
    subject_id,             \* per task: download_subject's subject_id
    step_id,                \* per task: download_step's step_id
    chapter_path,           \* per task: download_step's chapter_path
    chapters,               \* per task: keys of the dict `chapters`, in order
    chapters_topics_mapper, \* per task: chapter id -> list of step ids
    cursor,                 \* per task: position of the chapter/step loops
    fetched,                \* per task: step ids whose fetch was started
    written,                \* per task: step ids whose file was written
    step,                   \* per task: the step record being rendered
    rcur,                   \* per task: position inside download_step
    content,                \* per task: the lines of `content` so far
    asset_log,              \* per task: the assets requested for this step
    source,                 \* santize_path: the string it was first given
    path,                   \* santize_path: the string after `applied` calls
    applied,                \* santize_path: the calls made on `source`
    link,                   \* download_image: link
    image_id,               \* download_image: image_id
    filename,               \* download_image: filename
    imagePc                 \* download_image: its suspension point

limiterVars == <<calls_limit, period, semaphore, requests_finish_time, recent>>
taskVars    == <<pc, stack, sleepUntil, error>>
listVars    == <<page, subject_ids, requested>>
mainVars    == <<mainPc, mode, options_subject, subjects, token, listVars>>
remoteVars  == <<remote_enrolled, remote_last_page, remote_subjects,
                 remote_steps>>
walkVars    == <<subject_id, step_id, chapter_path, chapters,
                 chapters_topics_mapper, cursor, fetched, written>>
renderVars  == <<step, rcur, content, asset_log>>
textVars    == <<source, path, applied, link, image_id, filename, imagePc>>
vars == <<now, limiterVars, taskVars, mainVars, remoteVars, disk, walkVars,
          renderVars, textVars>>

None == "None"

\* options.subject when --subject is not given.
NoSubject == 0

----------------------------------------------------------------------------
(* Bounds of the model.                                                    *)

MaxTime    == 3     \* the clock stops ticking here
MaxLimit   == 2     \* calls_limit of the limiter under test: 1..MaxLimit
MaxPeriod  == 2     \* period of the limiter under test: 1..MaxPeriod
NumCallers == 3     \* concurrent callers of the limiter under test
NumMany    == 5     \* subjects of the platform of many subjects
MaxChapters == 2    \* entries of a subject's chapters field
MaxSteps   == 3     \* entries of a subject's flat step list
MaxItems   == 2     \* entries of each list of a step
MaxSections == 2    \* sections of a step
MaxPage    == 3     \* pages of the subject list that are requested
MaxPerPage == 2     \* subjects on a page of the subject list
MaxStrLen  == 3     \* characters of a string given to a text function
MaxApply   == 2     \* successive calls of santize_path on a string

(* Program constants.                                                      *)

DefaultCallsLimit == 5
DefaultPeriod     == 1

----------------------------------------------------------------------------
(* Strings are sequences of characters; a character is named by itself or, *)
(* outside ASCII, by its code point.                                       *)

AsciiLetters == {"a", "Z"}

AsciiDigits == {"7"}

\* U+044F CYRILLIC SMALL LETTER YA.
UnicodeLetters == {"U+044F"}

\* U+0663 ARABIC-INDIC DIGIT THREE.
UnicodeDigits == {"U+0663"}

\* U+20AC EURO SIGN.
PathChars ==
    AsciiLetters \cup AsciiDigits \cup UnicodeLetters \cup UnicodeDigits
        \cup {"_", "-", ".", " ", "/", "U+20AC"}

Strings(chars) == UNION {[1..k -> chars] : k \in 0..MaxStrLen}

\* No text function is in use.
InitText ==
    /\ source = <<>>
    /\ path = <<>>
    /\ applied = 0
    /\ link = <<>>
    /\ image_id = 0
    /\ filename = <<>>
    /\ imagePc = "none"

(* utils.santize_path                                                      *)

\* \w of a pattern compiled with re.ASCII.
IsWordAscii(c) == c \in AsciiLetters \cup AsciiDigits \cup {"_"}

\* \w of a str pattern: the alphanumeric characters of Unicode and '_'.
IsWord(c) ==
    c \in AsciiLetters \cup AsciiDigits \cup UnicodeLetters
              \cup UnicodeDigits \cup {"_"}

\* The character class [^\w\-_\. ].
Prohibited(c) == ~(IsWord(c) \/ c \in {"-", "_", ".", " "})

\* re.sub(..., count=1): only the first match is replaced.
ReplaceFirst(s) ==
    [i \in 1..Len(s) |->
        IF Prohibited(s[i]) /\ \A j \in 1..(i - 1) : ~Prohibited(s[j])
        THEN "_" ELSE s[i]]

\* re.sub(r'[^\w\-_\. ]', '_', source): every match is replaced by '_'.
santize_path(s) ==
    [i \in 1..Len(s) |-> IF Prohibited(s[i]) THEN "_" ELSE s[i]]

\* santize_path is called on the string the last call returned.
SantizePath ==
    /\ applied < MaxApply
    /\ path' = santize_path(path)
    /\ applied' = applied + 1
    /\ UNCHANGED <<now, limiterVars, taskVars, mainVars, remoteVars, disk,
                   walkVars, renderVars, source, link, image_id, filename,
                   imagePc>>

(* main.download_image                                                      *)

LinkChars == {"h", "p", "/", "."}

ImageIds == {5, 12}

Digits == <<"0", "1", "2", "3", "4", "5", "6", "7", "8", "9">>

RECURSIVE Str(_)
\* str(n) of a natural number.
Str(n) ==
    IF n < 10 THEN <<Digits[n + 1]>>
    ELSE Str(n \div 10) \o <<Digits[(n % 10) + 1]>>

Last(s) == s[Len(s)]

RECURSIVE Split(_, _)
\* str.split(sep): the parts of s between the occurrences of sep.
Split(s, sep) ==
    IF \A i \in 1..Len(s) : s[i] # sep THEN <<s>>
    ELSE LET k == CHOOSE i \in 1..Len(s) :
                      s[i] = sep /\ \A j \in 1..(i - 1) : s[j] # sep
         IN <<SubSeq(s, 1, k - 1)>> \o Split(SubSeq(s, k + 1, Len(s)), sep)

Photo == <<"p", "h", "o", "t", "o", "_">>

\* download_image up to its await: the filename it builds.
ImageFilename(lnk, id) ==
    LET last_part == Last(Split(lnk, "/"))
        parts     == Split(last_part, ".")
    IN Photo \o Str(id)
           \o (IF Len(parts) > 1 THEN <<".">> \o Last(parts) ELSE <<>>)

\* download_image is called: the filename is built, the file requested.
ImageCall ==
    /\ imagePc = "call"
    /\ filename' = ImageFilename(link, image_id)
    /\ imagePc' = "load_file"
    /\ UNCHANGED <<now, limiterVars, taskVars, mainVars, remoteVars, disk,
                   walkVars, renderVars, source, path, applied, link,
                   image_id>>

\* requests.load_file returned: the file is written, the filename returned.
ImageReturn ==
    /\ imagePc = "load_file"
    /\ imagePc' = "returned"
    /\ disk' = disk \cup {<<"file", filename>>}
    /\ UNCHANGED <<now, limiterVars, taskVars, mainVars, remoteVars,
                   walkVars, renderVars, source, path, applied, link,
                   image_id, filename>>

\* requests.load_file raised.
ImageRaise ==
    /\ imagePc = "load_file"
    /\ imagePc' = "raised"
    /\ UNCHANGED <<now, limiterVars, taskVars, mainVars, remoteVars, disk,
                   walkVars, renderVars, source, path, applied, link,
                   image_id, filename>>

----------------------------------------------------------------------------
(* utils.SequenceLimit                                                     *)

\* The limiter instances: one per use of the decorator in main.py, and the
\* instance under test that wraps an arbitrary unit.
Limiters == {"download_step", "download_subject", "unit"}

\* One limiter instance shared by every decorated function.
LimiterShared(f) == "download_subject"

\* The limiter instance a decorated function goes through.
LimiterOf(f) == f

Tasks == DOMAIN pc

Top(s) == s[Len(s)]

Pop(s) == SubSeq(s, 1, Len(s) - 1)

\* A semaphore that admits every caller.
LockedNever(l) == FALSE

\* A semaphore that makes a caller wait only below zero permits.
LockedBelowZero(l) == semaphore[l] < 0

\* asyncio.Semaphore: no free permit, the caller waits.  A freed permit may
\* go to any of the callers waiting for it.
Locked(l) == semaphore[l] = 0

Acquire(sem, l) == [sem EXCEPT ![l] = @ - 1]

Release(sem, l) == [sem EXCEPT ![l] = @ + 1]

RECURSIVE ReleaseAll(_, _)
\* An exception leaving every `async with self.semaphore` of the stack s.
ReleaseAll(sem, s) ==
    IF s = <<>> THEN sem
    ELSE ReleaseAll(Release(sem, LimiterOf(Top(s))), Pop(s))

\* wrapper, after the unit returned: requests_finish_time.append(now + period)
Record(q, l) == [q EXCEPT ![l] = Append(@, now + period[l])]

\* The history of completions: one more, now.
Completed(r, l) == [r EXCEPT ![l] = Append(@, now)]

\* A sleep() that pops only above calls_limit timestamps.
MustPopLate(l) == Len(requests_finish_time[l]) > calls_limit[l]

\* SequenceLimit.sleep(): does the caller pop the oldest timestamp?
MustPop(l) == Len(requests_finish_time[l]) >= calls_limit[l]

\* SequenceLimit.sleep(): does the caller sleep until the popped timestamp?
MustSleep(l) == MustPop(l) /\ Head(requests_finish_time[l]) >= now

\* The first await of the body of a decorated function.
BodyStart(f) ==
    CASE f = "download_subject" -> "subject_fetch"
      [] f = "download_step"    -> "step_fetch"
      [] OTHER                  -> "unit"

\* download_step's body starts with the fetch of its step.
FetchedOnEntry(t, f) ==
    IF f = "download_step"
    THEN [fetched EXCEPT ![t] = Append(@, step_id[t])]
    ELSE fetched

\* The event loop runs tasks until main() has returned or raised
\* (run_until_complete); a limiter or a renderer called on its own has no
\* main().
LoopRunning == mainPc \in {"gather", "none"}

\* wrapper: `async with self.semaphore`, then sleep() up to its await or, when
\* it does not sleep, up to the first await of the unit.
WrapperAcquire(t) ==
    /\ LoopRunning
    /\ pc[t] = "acquire"
    /\ LET f == Top(stack[t])
           l == LimiterOf(f)
       IN /\ ~Locked(l)
          /\ semaphore' = Acquire(semaphore, l)
          /\ requests_finish_time' =
                IF MustPop(l)
                THEN [requests_finish_time EXCEPT ![l] = Tail(@)]
                ELSE requests_finish_time
          /\ IF MustSleep(l)
             THEN /\ pc' = [pc EXCEPT ![t] = "sleeping"]
                  /\ sleepUntil' = [sleepUntil EXCEPT
                                       ![t] = Head(requests_finish_time[l])]
                  /\ UNCHANGED fetched
             ELSE /\ pc' = [pc EXCEPT ![t] = BodyStart(f)]
                  /\ fetched' = FetchedOnEntry(t, f)
                  /\ UNCHANGED sleepUntil
    /\ UNCHANGED <<now, textVars, calls_limit, period, recent, stack, error, mainVars,
                   remoteVars, disk, subject_id, step_id, chapter_path,
                   chapters, chapters_topics_mapper, cursor, written,
                   renderVars>>

\* sleep(): asyncio.sleep is over; the unit starts.
WakeUp(t) ==
    /\ LoopRunning
    /\ pc[t] = "sleeping"
    /\ now >= sleepUntil[t]
    /\ pc' = [pc EXCEPT ![t] = BodyStart(Top(stack[t]))]
    /\ sleepUntil' = [sleepUntil EXCEPT ![t] = 0]
    /\ fetched' = FetchedOnEntry(t, Top(stack[t]))
    /\ UNCHANGED <<now, textVars, limiterVars, stack, error, mainVars,
                   remoteVars, disk, subject_id, step_id, chapter_path,
                   chapters, chapters_topics_mapper, cursor, written,
                   renderVars>>

\* The clock advances; completions older than every period are forgotten.
Tick ==
    /\ now < MaxTime
    /\ now' = now + 1
    /\ recent' = [l \in Limiters |->
                     SelectSeq(recent[l], LAMBDA c : c > now' - period[l])]
    /\ UNCHANGED <<calls_limit, period, semaphore, requests_finish_time,
                   taskVars, mainVars, remoteVars, disk, walkVars, renderVars,
                   textVars>>

----------------------------------------------------------------------------
(* A limiter wrapping an arbitrary unit, called by NumCallers callers.     *)

\* A caller calls the wrapped unit.
Call(t) ==
    /\ pc[t] \in {"idle", "failed"}
    /\ pc' = [pc EXCEPT ![t] = "acquire"]
    /\ stack' = [stack EXCEPT ![t] = <<"unit">>]
    /\ error' = [error EXCEPT ![t] = None]
    /\ UNCHANGED <<now, textVars, limiterVars, sleepUntil, mainVars, remoteVars, disk,
                   walkVars, renderVars>>

\* The unit returns: the timestamp is appended, the permit released.
UnitReturn(t) ==
    /\ pc[t] = "unit"
    /\ LET l == LimiterOf(Top(stack[t]))
       IN /\ requests_finish_time' = Record(requests_finish_time, l)
          /\ recent' = Completed(recent, l)
          /\ semaphore' = Release(semaphore, l)
    /\ pc' = [pc EXCEPT ![t] = "idle"]
    /\ stack' = [stack EXCEPT ![t] = <<>>]
    /\ UNCHANGED <<now, textVars, calls_limit, period, sleepUntil, error, mainVars,
                   remoteVars, disk, walkVars, renderVars>>

\* The unit raises: the exception leaves the `async with` and the wrapper.
UnitRaise(t) ==
    /\ pc[t] = "unit"
    /\ semaphore' = ReleaseAll(semaphore, stack[t])
    /\ pc' = [pc EXCEPT ![t] = "failed"]
    /\ stack' = [stack EXCEPT ![t] = <<>>]
    /\ error' = [error EXCEPT ![t] = "unit"]
    /\ UNCHANGED <<now, textVars, calls_limit, period, requests_finish_time, recent,
                   sleepUntil, mainVars, remoteVars, disk, walkVars,
                   renderVars>>

NoTasks == <<>>

InitIdle ==
    /\ now = 0
    /\ mainPc = "none"
    /\ mode = "md"
    /\ options_subject = NoSubject
    /\ subjects = <<>>
    /\ token = None
    /\ page = 1
    /\ subject_ids = <<>>
    /\ requested = <<>>
    /\ remote_enrolled = <<>>
    /\ remote_last_page = <<>>
    /\ remote_subjects = <<>>
    /\ remote_steps = <<>>
    /\ disk = {}

InitLimit ==
    /\ InitIdle
    /\ InitText
    /\ \E n \in 1..MaxLimit, p \in 1..MaxPeriod :
          /\ calls_limit = [l \in Limiters |->
                               IF l = "unit" THEN n ELSE DefaultCallsLimit]
          /\ period = [l \in Limiters |->
                          IF l = "unit" THEN p ELSE DefaultPeriod]
    /\ semaphore = calls_limit
    /\ requests_finish_time = [l \in Limiters |-> <<>>]
    /\ recent = [l \in Limiters |-> <<>>]
    /\ pc = [t \in 1..NumCallers |-> "idle"]
    /\ stack = [t \in 1..NumCallers |-> <<>>]
    /\ sleepUntil = [t \in 1..NumCallers |-> 0]
    /\ error = [t \in 1..NumCallers |-> None]
    /\ subject_id = NoTasks
    /\ step_id = NoTasks
    /\ chapter_path = NoTasks
    /\ chapters = NoTasks
    /\ chapters_topics_mapper = NoTasks
    /\ cursor = NoTasks
    /\ fetched = NoTasks
    /\ written = NoTasks
    /\ step = NoTasks
    /\ rcur = NoTasks
    /\ content = NoTasks
    /\ asset_log = NoTasks

NextLimit ==
    \/ \E t \in Tasks : Call(t)
    \/ \E t \in Tasks : WrapperAcquire(t)
    \/ \E t \in Tasks : WakeUp(t)
    \/ \E t \in Tasks : UnitReturn(t)
    \/ \E t \in Tasks : UnitRaise(t)
    \/ Tick

SpecLimit == InitLimit /\ [][NextLimit]_vars

----------------------------------------------------------------------------
(* main.download_step: the renderer of one step.                           *)

Line(kind, id) == [kind |-> kind, id |-> id]

Lines(kind, ids) == [i \in 1..Len(ids) |-> Line(kind, ids[i])]

Cur(phase, sec, idx) == [phase |-> phase, sec |-> sec, idx |-> idx]

NoStep == [public_photos |-> <<>>, private_videos |-> <<>>,
           private_links |-> <<>>, private_documents |-> <<>>,
           sections |-> <<>>]

\* What download_step has put in `content` before its first loop.
StepHead == <<Line("title", 0), Line("h_public", 0), Line("public_text", 0)>>

\* After the loop over public_photos: the private heading and text.
PrivateHead == <<Line("h_private", 0), Line("private_text", 0)>>

\* The loop over private_links.
PrivateLinkLines(st) == Lines("link", st.private_links)

\* A renderer without the second loop over private_videos.
NoVideoLinkLines(st) == <<>>

\* The second loop over private_videos: one video link per entry.
PrivateVideoLinkLines(st) == Lines("video", st.private_videos)

\* The head of a section: its title, and its content unless it is null.
SectionHead(st, j) ==
    <<Line("section_title", j)>>
        \o (IF st.sections[j].has_content
            THEN <<Line("section_content", j)>> ELSE <<>>)

\* A renderer that puts a section's videos before its links.
SectionVideosFirst(st, j) ==
    Lines("video", st.sections[j].videos) \o Lines("link", st.sections[j].links)

\* The loops over a section's links and videos.
SectionLinkLines(st, j) ==
    Lines("link", st.sections[j].links) \o Lines("video", st.sections[j].videos)

\* The list the loop at cur runs over.
LoopList(st, cur) ==
    CASE cur.phase = "public_photos"     -> st.public_photos
      [] cur.phase = "private_videos"    -> st.private_videos
      [] cur.phase = "private_documents" -> st.private_documents
      [] cur.phase = "sec_photos"        -> st.sections[cur.sec].photos
      [] cur.phase = "sec_documents"     -> st.sections[cur.sec].documents
      [] OTHER                           -> <<>>

\* download_image or download_document: which one the loop at cur calls.
LoopKind(cur) ==
    IF cur.phase \in {"private_documents", "sec_documents"}
    THEN "document" ELSE "image"

\* The asset the loop at cur is materializing.
CurrentAsset(st, cur) == Line(LoopKind(cur), LoopList(st, cur)[cur.idx])

RECURSIVE Render(_, _, _)
\* The md branch of download_step from position cur with `content` = out, run
\* up to its next await (an asset of the loop at cur) or to file.write.
Render(st, cur, out) ==
    IF cur.phase = "end" THEN [cur |-> cur, content |-> out]
    ELSE IF cur.phase = "sections" THEN
        IF cur.sec <= Len(st.sections)
        THEN Render(st, Cur("sec_photos", cur.sec, 1),
                    out \o SectionHead(st, cur.sec))
        ELSE Render(st, Cur("end", 0, 1), out)
    ELSE IF cur.idx <= Len(LoopList(st, cur))
    THEN [cur |-> cur, content |-> out]
    ELSE CASE cur.phase = "public_photos" ->
                Render(st, Cur("private_videos", 0, 1), out \o PrivateHead)
           [] cur.phase = "private_videos" ->
                Render(st, Cur("private_documents", 0, 1),
                       out \o PrivateLinkLines(st) \o PrivateVideoLinkLines(st))
           [] cur.phase = "private_documents" ->
                Render(st, Cur("sections", 1, 1), out)
           [] cur.phase = "sec_photos" ->
                Render(st, Cur("sec_documents", cur.sec, 1),
                       out \o SectionLinkLines(st, cur.sec))
           [] cur.phase = "sec_documents" ->
                Render(st, Cur("sections", cur.sec + 1, 1), out)

\* The paths under options.out.
SubjectDirs(sid) == {<<"subject", sid>>, <<"assets", sid>>, <<"intro", sid>>}

ChapterDir(sid, cid) == <<"chapter", sid, cid>>

StepFile(sid, cid, id) == <<"step", sid, cid, id>>

AssetFile(sid, asset) ==
    <<"asset", sid, IF asset.kind = "image" THEN "photo" ELSE "document",
      asset.id>>

\* The keys of a step record and of a section record, in the order the
\* platform sends them (the fields keep the names the renderer reads; the
\* field has_content stands for the key 'content').
StepKeys == <<"public_photos", "private_videos", "private_links",
              "private_documents", "sections">>

SectionKeys == <<"has_content", "photos", "links", "videos", "documents">>

\* The place of a key in the order of str, by which sort_keys sorts.
KeyRank ==
    ("content" :> 1) @@ ("documents" :> 2) @@ ("links" :> 3)
    @@ ("photos" :> 4) @@ ("private_documents" :> 5)
    @@ ("private_links" :> 6) @@ ("private_videos" :> 7)
    @@ ("public_photos" :> 8) @@ ("sections" :> 9) @@ ("videos" :> 10)

\* The key of the platform's record that a field of the model stands for.
KeyName(k) == IF k = "has_content" THEN "content" ELSE k

\* A serializer that keeps the keys in the order of the dict.
KeepKeys(keys) == keys

RECURSIVE SortKeys(_)
\* json.dumps(..., sort_keys=True): the keys of a dict in ascending order.
SortKeys(keys) ==
    IF keys = <<>> THEN <<>>
    ELSE LET m == CHOOSE i \in 1..Len(keys) :
                      \A j \in 1..Len(keys) :
                          KeyRank[KeyName(keys[i])] <= KeyRank[KeyName(keys[j])]
         IN <<keys[m]>>
                \o SortKeys(SubSeq(keys, 1, m - 1)
                                \o SubSeq(keys, m + 1, Len(keys)))

\* json.dumps of a dict: its items, one per key, in the order of the keys.
Dumps(rec, keys) ==
    LET ks == SortKeys(keys)
    IN [i \in 1..Len(ks) |-> [key |-> ks[i], value |-> rec[ks[i]]]]

\* json.dumps of a step: the dicts of its sections are serialized likewise.
DumpsStep(st) ==
    Dumps([st EXCEPT !.sections =
                  [j \in 1..Len(@) |-> Dumps(@[j], SectionKeys)]],
          StepKeys)

\* What the json branch of download_step writes to the step file.
JsonFile(st) == <<Line("json", DumpsStep(st))>>

----------------------------------------------------------------------------
(* main.download_subject: the walker of one subject.                       *)

Range(f) == {f[i] : i \in DOMAIN f}

Min(a, b) == IF a <= b THEN a ELSE b

RECURSIVE BuildChaptersReversed(_, _)
\* A dict that iterates its keys latest first.
BuildChaptersReversed(chs, keys) ==
    IF chs = <<>> THEN keys
    ELSE BuildChaptersReversed(Tail(chs),
                               IF Head(chs) \in Range(keys) THEN keys
                               ELSE <<Head(chs)>> \o keys)

RECURSIVE BuildChapters(_, _)
\* The loop over subject['chapters']: the keys of `chapters`, in the order
\* a dict keeps them (the order of first insertion).
BuildChapters(chs, keys) ==
    IF chs = <<>> THEN keys
    ELSE BuildChapters(Tail(chs),
                       IF Head(chs) \in Range(keys) THEN keys
                       ELSE Append(keys, Head(chs)))

\* A grouping that forgets `not hidden`.
GroupedHiddenToo(s, m) == s.chapter_id \in DOMAIN m

\* The condition under which a step is appended to its chapter's list.
Grouped(s, m) == s.chapter_id \in DOMAIN m /\ ~s.hidden

RECURSIVE GroupSteps(_, _)
\* The loop over subject['steps'], on chapters_topics_mapper = m.
GroupSteps(steps, m) ==
    IF steps = <<>> THEN m
    ELSE GroupSteps(Tail(steps),
                    IF Grouped(Head(steps), m)
                    THEN [m EXCEPT ![Head(steps).chapter_id] =
                                       Append(@, Head(steps).id)]
                    ELSE m)

\* chapters_topics_mapper as download_subject builds it.
TopicsMapper(sub) ==
    GroupSteps(sub.steps,
               [c \in Range(BuildChapters(sub.chapters, <<>>)) |-> <<>>])

\* The loop variable of `for step_id in chapters_topics_mapper[chapter_id]`
\* after the step at index si.
StepAfter(si) == si + 1

RECURSIVE NextPos(_, _, _, _)
\* The nested loops over chapters and their steps, from chapter index ci and
\* step index si: the position of the next call of download_step, or a
\* chapter index past the last chapter when the loops end.
NextPos(keys, m, ci, si) ==
    IF ci > Len(keys) THEN [ci |-> ci, si |-> 1]
    ELSE IF si >= 1 /\ si <= Len(m[keys[ci]]) THEN [ci |-> ci, si |-> si]
    ELSE NextPos(keys, m, ci + 1, 1)

\* download_subject from the position (ci, si) of its loops, for task t whose
\* stack below download_step is base: up to the call of download_step, or to
\* its return through the wrapper.  sem, q, r, dsk: the state so far.
Walk(t, base, keys, m, ci, si, sem, q, r, dsk) ==
    LET pos  == NextPos(keys, m, ci, si)
        dirs == {ChapterDir(subject_id[t], keys[i]) :
                    i \in ci..Min(pos.ci, Len(keys))}
    IN /\ cursor' = [cursor EXCEPT ![t] = pos]
       /\ disk' = dsk \cup dirs
       /\ IF pos.ci <= Len(keys)
          THEN /\ pc' = [pc EXCEPT ![t] = "acquire"]
               /\ stack' = [stack EXCEPT ![t] = Append(base, "download_step")]
               /\ step_id' = [step_id EXCEPT ![t] = m[keys[pos.ci]][pos.si]]
               /\ chapter_path' = [chapter_path EXCEPT ![t] = keys[pos.ci]]
               /\ semaphore' = sem
               /\ requests_finish_time' = q
               /\ recent' = r
          ELSE /\ pc' = [pc EXCEPT ![t] = "done"]
               /\ stack' = [stack EXCEPT ![t] = Pop(base)]
               /\ UNCHANGED <<step_id, chapter_path>>
               /\ semaphore' = Release(sem, LimiterOf(Top(base)))
               /\ requests_finish_time' = Record(q, LimiterOf(Top(base)))
               /\ recent' = Completed(r, LimiterOf(Top(base)))

\* download_step returns through its wrapper with `content` = out written to
\* the step file; the caller, if any, goes on.
FinishStep(t, out, dsk) ==
    LET l    == LimiterOf(Top(stack[t]))
        base == Pop(stack[t])
        sem  == Release(semaphore, l)
        q    == Record(requests_finish_time, l)
        r    == Completed(recent, l)
    IN /\ content' = [content EXCEPT ![t] = out]
       /\ rcur' = [rcur EXCEPT ![t] = Cur("end", 0, 1)]
       /\ written' = [written EXCEPT ![t] = Append(@, step_id[t])]
       /\ IF base = <<>>
          THEN /\ pc' = [pc EXCEPT ![t] = "done"]
               /\ stack' = [stack EXCEPT ![t] = base]
               /\ semaphore' = sem
               /\ requests_finish_time' = q
               /\ recent' = r
               /\ disk' = dsk
               /\ UNCHANGED <<cursor, step_id, chapter_path>>
          ELSE Walk(t, base, chapters[t], chapters_topics_mapper[t],
                    cursor[t].ci, StepAfter(cursor[t].si), sem, q, r, dsk)

\* An exception raised at an await of task t: nothing catches it, it leaves
\* every wrapper of the stack and ends the task.
Raise(t, what) ==
    /\ semaphore' = ReleaseAll(semaphore, stack[t])
    /\ pc' = [pc EXCEPT ![t] = "failed"]
    /\ stack' = [stack EXCEPT ![t] = <<>>]
    /\ error' = [error EXCEPT ![t] = what]
    /\ UNCHANGED <<now, textVars, calls_limit, period, requests_finish_time, recent,
                   sleepUntil, mainVars, remoteVars, disk, walkVars,
                   renderVars>>

\* requests.subject returned: directories, intro file, grouping, and the
\* loops up to the first call of download_step.
SubjectFetchReturn(t) ==
    /\ LoopRunning
    /\ pc[t] = "subject_fetch"
    /\ subject_id[t] \in DOMAIN remote_subjects
    /\ LET sub  == remote_subjects[subject_id[t]]
           keys == BuildChapters(sub.chapters, <<>>)
           m    == TopicsMapper(sub)
       IN /\ chapters' = [chapters EXCEPT ![t] = keys]
          /\ chapters_topics_mapper' = [chapters_topics_mapper EXCEPT ![t] = m]
          /\ Walk(t, stack[t], keys, m, 1, 1, semaphore,
                  requests_finish_time, recent,
                  disk \cup SubjectDirs(subject_id[t]))
    /\ UNCHANGED <<now, textVars, calls_limit, period, sleepUntil, error, mainVars,
                   remoteVars, subject_id, fetched, written, renderVars>>

\* requests.subject raised.
SubjectFetchRaise(t) ==
    /\ LoopRunning
    /\ pc[t] = "subject_fetch"
    /\ Raise(t, "subject")

\* requests.step returned: the step file is opened, and the step rendered up
\* to its first asset or, without one, written.
StepFetchReturn(t) ==
    /\ LoopRunning
    /\ pc[t] = "step_fetch"
    /\ step_id[t] \in DOMAIN remote_steps
    /\ LET st  == remote_steps[step_id[t]]
           dsk == disk \cup {StepFile(subject_id[t], chapter_path[t],
                                      step_id[t])}
           r   == Render(st, Cur("public_photos", 0, 1), StepHead)
       IN /\ step' = [step EXCEPT ![t] = st]
          /\ IF mode = "md"
             THEN IF r.cur.phase = "end"
                  THEN /\ FinishStep(t, r.content, dsk)
                       /\ asset_log' = [asset_log EXCEPT ![t] = <<>>]
                  ELSE /\ asset_log' = [asset_log EXCEPT ![t] =
                                           <<CurrentAsset(st, r.cur)>>]
                       /\ pc' = [pc EXCEPT ![t] = "load_file"]
                       /\ rcur' = [rcur EXCEPT ![t] = r.cur]
                       /\ content' = [content EXCEPT ![t] = r.content]
                       /\ disk' = dsk
                       /\ UNCHANGED <<limiterVars, stack, cursor, step_id,
                                      chapter_path, written>>
             ELSE /\ FinishStep(t, JsonFile(st), dsk)
                  /\ asset_log' = [asset_log EXCEPT ![t] = <<>>]
    /\ UNCHANGED <<now, textVars, calls_limit, period, sleepUntil, error, mainVars,
                   remoteVars, subject_id, chapters, chapters_topics_mapper,
                   fetched>>

\* requests.step raised, and the exception is swallowed.
StepFetchRaiseCaught(t) ==
    /\ LoopRunning
    /\ pc[t] = "step_fetch"
    /\ error' = [error EXCEPT ![t] = "step"]
    /\ UNCHANGED <<now, textVars, limiterVars, pc, stack, sleepUntil, mainVars,
                   remoteVars, disk, walkVars, renderVars>>

\* requests.step raised.
StepFetchRaise(t) ==
    /\ LoopRunning
    /\ pc[t] = "step_fetch"
    /\ Raise(t, "step")

\* requests.load_file returned: the asset is written, its line appended, and
\* the step rendered up to its next asset or written.
AssetReturn(t) ==
    /\ LoopRunning
    /\ pc[t] = "load_file"
    /\ LET st    == step[t]
           asset == CurrentAsset(st, rcur[t])
           dsk   == disk \cup {AssetFile(subject_id[t], asset)}
           r     == Render(st, [rcur[t] EXCEPT !.idx = @ + 1],
                           Append(content[t], asset))
       IN IF r.cur.phase = "end"
          THEN /\ FinishStep(t, r.content, dsk)
               /\ UNCHANGED asset_log
          ELSE /\ asset_log' = [asset_log EXCEPT
                                   ![t] = Append(@, CurrentAsset(st, r.cur))]
               /\ rcur' = [rcur EXCEPT ![t] = r.cur]
               /\ content' = [content EXCEPT ![t] = r.content]
               /\ disk' = dsk
               /\ UNCHANGED <<limiterVars, pc, stack, cursor, step_id,
                              chapter_path, written>>
    /\ UNCHANGED <<now, textVars, calls_limit, period, sleepUntil, error, mainVars,
                   remoteVars, subject_id, chapters, chapters_topics_mapper,
                   fetched, step>>

\* requests.load_file raised.
AssetRaise(t) ==
    /\ LoopRunning
    /\ pc[t] = "load_file"
    /\ Raise(t, "load_file")

----------------------------------------------------------------------------
(* main.main: the orchestrator.                                            *)

EmptyTasks == <<>>

\* reqs: one download_subject coroutine per subject id, handed to
\* asyncio.gather, which makes each a task of the event loop.
CreateTasks(ids) ==
    /\ subjects' = ids
    /\ mainPc' = "gather"
    /\ pc' = [t \in 1..Len(ids) |-> "acquire"]
    /\ stack' = [t \in 1..Len(ids) |-> <<"download_subject">>]
    /\ sleepUntil' = [t \in 1..Len(ids) |-> 0]
    /\ error' = [t \in 1..Len(ids) |-> None]
    /\ subject_id' = [t \in 1..Len(ids) |-> ids[t]]
    /\ step_id' = [t \in 1..Len(ids) |-> 0]
    /\ chapter_path' = [t \in 1..Len(ids) |-> 0]
    /\ chapters' = [t \in 1..Len(ids) |-> <<>>]
    /\ chapters_topics_mapper' = [t \in 1..Len(ids) |-> <<>>]
    /\ cursor' = [t \in 1..Len(ids) |-> [ci |-> 1, si |-> 1]]
    /\ fetched' = [t \in 1..Len(ids) |-> <<>>]
    /\ written' = [t \in 1..Len(ids) |-> <<>>]
    /\ step' = [t \in 1..Len(ids) |-> NoStep]
    /\ rcur' = [t \in 1..Len(ids) |-> Cur("idle", 0, 1)]
    /\ content' = [t \in 1..Len(ids) |-> <<>>]
    /\ asset_log' = [t \in 1..Len(ids) |-> <<>>]
    /\ UNCHANGED <<now, textVars, limiterVars, mode, options_subject, remoteVars, disk>>

\* The response to the request of page p of the user's subjects.
Response(p) ==
    [data      |-> IF p \in DOMAIN remote_enrolled
                   THEN remote_enrolled[p] ELSE <<>>,
     last_page |-> IF p \in DOMAIN remote_last_page
                   THEN remote_last_page[p] ELSE 0]

\* A loop that also ends on a page past the last one.
LastPageOrLater(result, p) == result.last_page <= p

\* get_list_of_subject_ids: `if last_page == page: break`
LastPageReached(result, p) == result.last_page = p

\* A loop that steps over every other page.
SkipPage(p) == p + 2

\* get_list_of_subject_ids: page += 1
NextPage(p) == p + 1

\* main() ends with an exception before it has created the tasks.
MainRaise ==
    /\ mainPc' = "raised"
    /\ UNCHANGED <<now, textVars, limiterVars, taskVars, mode, options_subject,
                   subjects, token, listVars, remoteVars, disk, walkVars,
                   renderVars>>

\* sign_in raised, and main() goes on without a token.
SignInRaiseIgnored ==
    /\ mainPc = "sign_in"
    /\ mainPc' = "list_subjects"
    /\ requested' = Append(requested, page)
    /\ UNCHANGED <<now, textVars, limiterVars, taskVars, mode, options_subject,
                   subjects, token, page, subject_ids, remoteVars, disk,
                   walkVars, renderVars>>

\* sign_in returned the token: with --subject, the tasks are created at
\* once; without, get_list_of_subject_ids requests page 1.
SignInReturn ==
    /\ mainPc = "sign_in"
    /\ token' = "token"
    /\ IF options_subject = NoSubject
       THEN /\ mainPc' = "list_subjects"
            /\ page' = 1
            /\ subject_ids' = <<>>
            /\ requested' = Append(requested, 1)
            /\ UNCHANGED <<now, textVars, limiterVars, taskVars, mode, options_subject,
                           subjects, remoteVars, disk, walkVars, renderVars>>
       ELSE /\ CreateTasks(<<options_subject>>)
            /\ UNCHANGED listVars

\* sign_in raised: main() ends with the exception.
SignInRaise ==
    /\ mainPc = "sign_in"
    /\ MainRaise

\* student_subjects_per_page returned: the ids of the page are appended; on
\* last_page == page the loop ends and the tasks are created, otherwise the
\* next page is requested.
SubjectsPageReturn ==
    /\ mainPc = "list_subjects"
    /\ LET result == Response(page)
           ids    == subject_ids \o result.data
       IN /\ subject_ids' = ids
          /\ IF LastPageReached(result, page)
             THEN /\ CreateTasks(ids)
                  /\ UNCHANGED <<page, requested>>
             ELSE /\ NextPage(page) <= MaxPage
                  /\ page' = NextPage(page)
                  /\ requested' = Append(requested, NextPage(page))
                  /\ UNCHANGED <<now, textVars, limiterVars, taskVars, mainPc, mode,
                                 options_subject, subjects, remoteVars, disk,
                                 walkVars, renderVars>>
    /\ UNCHANGED token

\* student_subjects_per_page raised.
SubjectsPageRaise ==
    /\ mainPc = "list_subjects"
    /\ MainRaise

\* await asyncio.gather(*reqs), return_exceptions left False: the first
\* exception of a task is raised in main() at once.  It leaves main(), and
\* run_until_complete stops the event loop.
GatherRaise ==
    /\ mainPc = "gather"
    /\ \E t \in Tasks : pc[t] = "failed"
    /\ mainPc' = "raised"
    /\ UNCHANGED <<now, textVars, limiterVars, taskVars, mode, options_subject,
                   subjects, token, listVars, remoteVars, disk, walkVars,
                   renderVars>>

\* await asyncio.gather(*reqs): every task returned; main() returns 0.
GatherReturn ==
    /\ mainPc = "gather"
    /\ \A t \in Tasks : pc[t] = "done"
    /\ mainPc' = "returned"
    /\ UNCHANGED <<now, textVars, limiterVars, taskVars, mode, options_subject,
                   subjects, token, listVars, remoteVars, disk, walkVars,
                   renderVars>>

----------------------------------------------------------------------------
(* The platform the program runs against.                                  *)

StepRef(id, chapter_id, hidden) ==
    [id |-> id, chapter_id |-> chapter_id, hidden |-> hidden]

Section(has_content, photos, links, videos, documents) ==
    [has_content |-> has_content, photos |-> photos, links |-> links,
     videos |-> videos, documents |-> documents]

StepRecord(photos, videos, links, documents, sections) ==
    [public_photos |-> photos, private_videos |-> videos,
     private_links |-> links, private_documents |-> documents,
     sections |-> sections]

\* Two subjects.  Subject 1: chapter 20 holds step 4, chapter 10 steps 1
\* and 5 (step 2 is hidden, step 3 names no chapter).  Subject 2: chapter 30
\* (listed twice) holds steps 6, 7, 8, chapter 40 nothing.
PlatformEnrolled == <<<<1>>, <<2>>>>

\* Every response of the subject list reports two pages.
PlatformLastPage == [p \in 1..MaxPage |-> Len(PlatformEnrolled)]

PlatformSubjects ==
    (1 :> [chapters |-> <<20, 10>>,
           steps |-> <<StepRef(1, 10, FALSE), StepRef(2, 10, TRUE),
                       StepRef(3, 99, FALSE), StepRef(4, 20, FALSE),
                       StepRef(5, 10, FALSE)>>])
    @@
    (2 :> [chapters |-> <<30, 40, 30>>,
           steps |-> <<StepRef(6, 30, FALSE), StepRef(7, 30, FALSE),
                       StepRef(8, 30, FALSE)>>])

PlatformSteps ==
    [id \in 1..8 |->
        CASE id = 1 -> StepRecord(<<11>>, <<12>>, <<13>>, <<14>>,
                                  <<Section(TRUE, <<15>>, <<16>>, <<17>>,
                                            <<18>>)>>)
          [] id = 6 -> StepRecord(<<>>, <<>>, <<>>, <<>>,
                                  <<Section(FALSE, <<>>, <<>>, <<19>>, <<>>)>>)
          [] OTHER  -> NoStep]

InitLimiters ==
    /\ calls_limit = [l \in Limiters |-> DefaultCallsLimit]
    /\ period = [l \in Limiters |-> DefaultPeriod]
    /\ semaphore = calls_limit
    /\ requests_finish_time = [l \in Limiters |-> <<>>]
    /\ recent = [l \in Limiters |-> <<>>]

InitNoTasks ==
    /\ pc = EmptyTasks
    /\ stack = EmptyTasks
    /\ sleepUntil = EmptyTasks
    /\ error = EmptyTasks
    /\ subject_id = EmptyTasks
    /\ step_id = EmptyTasks
    /\ chapter_path = EmptyTasks
    /\ chapters = EmptyTasks
    /\ chapters_topics_mapper = EmptyTasks
    /\ cursor = EmptyTasks
    /\ fetched = EmptyTasks
    /\ written = EmptyTasks
    /\ step = EmptyTasks
    /\ rcur = EmptyTasks
    /\ content = EmptyTasks
    /\ asset_log = EmptyTasks

\* The program is started, any --mode, with or without --subject.
Init ==
    /\ now = 0
    /\ InitText
    /\ InitLimiters
    /\ InitNoTasks
    /\ mainPc = "sign_in"
    /\ mode \in {"md", "json"}
    /\ options_subject \in {NoSubject, 1}
    /\ subjects = <<>>
    /\ token = None
    /\ page = 1
    /\ subject_ids = <<>>
    /\ requested = <<>>
    /\ remote_enrolled = PlatformEnrolled
    /\ remote_last_page = PlatformLastPage
    /\ remote_subjects = PlatformSubjects
    /\ remote_steps = PlatformSteps
    /\ disk = {}

Next ==
    \/ SignInReturn
    \/ SignInRaise
    \/ SubjectsPageReturn
    \/ SubjectsPageRaise
    \/ GatherRaise
    \/ GatherReturn
    \/ \E t \in Tasks : WrapperAcquire(t)
    \/ \E t \in Tasks : WakeUp(t)
    \/ \E t \in Tasks : SubjectFetchReturn(t)
    \/ \E t \in Tasks : SubjectFetchRaise(t)
    \/ \E t \in Tasks : StepFetchReturn(t)
    \/ \E t \in Tasks : StepFetchRaise(t)
    \/ \E t \in Tasks : AssetReturn(t)
    \/ \E t \in Tasks : AssetRaise(t)
    \/ Tick

Spec == Init /\ [][Next]_vars

----------------------------------------------------------------------------
(* The program against a platform of NumMany subjects of one chapter and   *)
(* one step each (the first subject has two steps, the first with a        *)
(* photo).                                                                 *)

ManyEnrolled == [i \in 1..NumMany |-> 100 + i]

\* The subjects come in one page.
ManyPages == <<ManyEnrolled>>

ManyLastPage == [p \in 1..MaxPage |-> 1]

ManySubjects ==
    [id \in Range(ManyEnrolled) |->
        [chapters |-> <<1>>,
         steps |-> IF id = 101
                   THEN <<StepRef(101, 1, FALSE), StepRef(100, 1, FALSE)>>
                   ELSE <<StepRef(id, 1, FALSE)>>]]

ManySteps ==
    [id \in Range(ManyEnrolled) \cup {100} |->
        IF id = 101 THEN StepRecord(<<11>>, <<>>, <<>>, <<>>, <<>>)
        ELSE NoStep]

InitMany ==
    /\ now = 0
    /\ InitText
    /\ InitLimiters
    /\ InitNoTasks
    /\ mainPc = "sign_in"
    /\ mode = "md"
    /\ options_subject = NoSubject
    /\ subjects = <<>>
    /\ token = None
    /\ page = 1
    /\ subject_ids = <<>>
    /\ requested = <<>>
    /\ remote_enrolled = ManyPages
    /\ remote_last_page = ManyLastPage
    /\ remote_subjects = ManySubjects
    /\ remote_steps = ManySteps
    /\ disk = {}

SpecMany == InitMany /\ [][Next]_vars

----------------------------------------------------------------------------
(* The program against a platform with one subject more than the default   *)
(* calls_limit: the first subject has one step with a photo, the others    *)
(* have a chapter without steps.                                           *)

NumCrowd == DefaultCallsLimit + 1

CrowdEnrolled == [i \in 1..NumCrowd |-> 200 + i]

CrowdPages == <<CrowdEnrolled>>

CrowdSubjects ==
    [id \in Range(CrowdEnrolled) |->
        [chapters |-> <<1>>,
         steps |-> IF id = 201 THEN <<StepRef(201, 1, FALSE)>> ELSE <<>>]]

CrowdSteps == (201 :> StepRecord(<<11>>, <<>>, <<>>, <<>>, <<>>))

InitCrowd ==
    /\ now = 0
    /\ InitText
    /\ InitLimiters
    /\ InitNoTasks
    /\ mainPc = "sign_in"
    /\ mode = "md"
    /\ options_subject = NoSubject
    /\ subjects = <<>>
    /\ token = None
    /\ page = 1
    /\ subject_ids = <<>>
    /\ requested = <<>>
    /\ remote_enrolled = CrowdPages
    /\ remote_last_page = ManyLastPage
    /\ remote_subjects = CrowdSubjects
    /\ remote_steps = CrowdSteps
    /\ disk = {}

SpecCrowd == InitCrowd /\ [][Next]_vars

----------------------------------------------------------------------------
(* The program against a platform with one subject more than the default   *)
(* calls_limit, every subject with one step (the first step with a photo), *)
(* when every network call returns; the event loop runs every task that    *)
(* can run, and time goes on.                                              *)

NestedSubjects ==
    [id \in Range(CrowdEnrolled) |->
        [chapters |-> <<1>>, steps |-> <<StepRef(id, 1, FALSE)>>]]

NestedSteps ==
    [id \in Range(CrowdEnrolled) |->
        IF id = 201 THEN StepRecord(<<11>>, <<>>, <<>>, <<>>, <<>>)
        ELSE NoStep]

InitNested ==
    /\ now = 0
    /\ InitText
    /\ InitLimiters
    /\ InitNoTasks
    /\ mainPc = "sign_in"
    /\ mode = "md"
    /\ options_subject = NoSubject
    /\ subjects = <<>>
    /\ token = None
    /\ page = 1
    /\ subject_ids = <<>>
    /\ requested = <<>>
    /\ remote_enrolled = CrowdPages
    /\ remote_last_page = ManyLastPage
    /\ remote_subjects = NestedSubjects
    /\ remote_steps = NestedSteps
    /\ disk = {}

\* time.monotonic() goes on: at any moment of the first period, and later
\* as far as a sleeping task waits for it.
Clock ==
    /\ \/ now < DefaultPeriod
       \/ \E t \in Tasks : pc[t] = "sleeping" /\ sleepUntil[t] > now
    /\ now' = now + 1
    /\ recent' = [l \in Limiters |->
                     SelectSeq(recent[l], LAMBDA c : c > now' - period[l])]
    /\ UNCHANGED <<calls_limit, period, semaphore, requests_finish_time,
                   taskVars, mainVars, remoteVars, disk, walkVars, renderVars,
                   textVars>>

\* What the event loop runs of task t when its network calls return.
TaskStep(t) ==
    /\ t \in Tasks
    /\ \/ WrapperAcquire(t)
       \/ WakeUp(t)
       \/ SubjectFetchReturn(t)
       \/ StepFetchReturn(t)
       \/ AssetReturn(t)

\* What the event loop runs of main() when its network calls return.
MainStep ==
    \/ SignInReturn
    \/ SubjectsPageReturn
    \/ GatherReturn

NextNested ==
    \/ MainStep
    \/ \E t \in Tasks : TaskStep(t)
    \/ Clock

\* The event loop does not stop while a callback is ready, a network call
\* is to return or a sleep is to end.
FairNested == WF_vars(NextNested)

SpecNested == InitNested /\ [][NextNested]_vars /\ FairNested

----------------------------------------------------------------------------
(* download_subject called on its own, on any subject of at most           *)
(* MaxChapters chapter entries and MaxSteps steps.                         *)

ChapterIds == {10, 20}

\* A chapter id no chapters field holds.
UnknownChapterIds == {99}

SeqsUpTo(S, n) == UNION {[1..k -> S] : k \in 0..n}

\* The flat step lists: the step at index i has id i.
StepLists ==
    UNION {{[i \in 1..k |-> StepRef(i, f[i][1], f[i][2])] :
               f \in [1..k -> (ChapterIds \cup UnknownChapterIds)
                                  \X BOOLEAN]} :
           k \in 0..MaxSteps}

\* One task that has called the decorated function f.
InitOneCall(f) ==
    /\ now = 0
    /\ InitText
    /\ InitLimiters
    /\ mainPc = "none"
    /\ options_subject = NoSubject
    /\ subjects = <<>>
    /\ token = None
    /\ page = 1
    /\ subject_ids = <<>>
    /\ requested = <<>>
    /\ remote_enrolled = <<>>
    /\ remote_last_page = <<>>
    /\ disk = {}
    /\ pc = <<"acquire">>
    /\ stack = <<<<f>>>>
    /\ sleepUntil = <<0>>
    /\ error = <<None>>
    /\ subject_id = <<1>>
    /\ step_id = <<1>>
    /\ chapter_path = <<10>>
    /\ chapters = <<<<>>>>
    /\ chapters_topics_mapper = <<<<>>>>
    /\ cursor = <<[ci |-> 1, si |-> 1]>>
    /\ fetched = <<<<>>>>
    /\ written = <<<<>>>>
    /\ step = <<NoStep>>
    /\ rcur = <<Cur("idle", 0, 1)>>
    /\ content = <<<<>>>>
    /\ asset_log = <<<<>>>>

InitGroup ==
    /\ InitOneCall("download_subject")
    /\ mode \in {"md", "json"}
    /\ \E chs \in SeqsUpTo(ChapterIds, MaxChapters), sts \in StepLists :
          remote_subjects = (1 :> [chapters |-> chs, steps |-> sts])
    /\ remote_steps = <<>>

NextGroup ==
    \/ \E t \in Tasks : WrapperAcquire(t)
    \/ \E t \in Tasks : SubjectFetchReturn(t)
    \/ \E t \in Tasks : SubjectFetchRaise(t)

SpecGroup == InitGroup /\ [][NextGroup]_vars

----------------------------------------------------------------------------
(* download_step called on its own, on any step of at most MaxItems        *)
(* entries per list and MaxSections sections.                              *)

\* The lists of at most MaxItems entries, with the ids base + 1, base + 2, ...
ItemLists(base) == {[i \in 1..k |-> base + i] : k \in 0..MaxItems}

SectionShapes ==
    {Section(c, p, r[1], r[2], r[3]) :
        c \in BOOLEAN, p \in {<<>>, <<51>>},
        r \in {<<<<>>, <<>>, <<>>>>, <<<<52>>, <<53>>, <<54>>>>}}

StepRecords ==
    {StepRecord(p, v, l, d, s) :
        p \in ItemLists(10), v \in ItemLists(20), l \in ItemLists(30),
        d \in ItemLists(40), s \in SeqsUpTo(SectionShapes, MaxSections)}

InitRender ==
    /\ InitOneCall("download_step")
    /\ mode \in {"md", "json"}
    /\ remote_subjects = <<>>
    /\ \E st \in StepRecords : remote_steps = (1 :> st)

NextRender ==
    \/ \E t \in Tasks : WrapperAcquire(t)
    \/ \E t \in Tasks : StepFetchReturn(t)
    \/ \E t \in Tasks : StepFetchRaise(t)
    \/ \E t \in Tasks : AssetReturn(t)
    \/ \E t \in Tasks : AssetRaise(t)

SpecRender == InitRender /\ [][NextRender]_vars

----------------------------------------------------------------------------
(* main() up to the creation of the tasks, against any subject list of     *)
(* MaxPage pages of at most MaxPerPage subjects, every response reporting  *)
(* any last_page.                                                          *)

\* The subject lists: the i-th subject of page p has the id 10 * p + i.
PageLists ==
    {[p \in 1..MaxPage |-> [i \in 1..n[p] |-> 10 * p + i]] :
        n \in [1..MaxPage -> 0..MaxPerPage]}

InitPages ==
    /\ now = 0
    /\ InitText
    /\ InitLimiters
    /\ InitNoTasks
    /\ mainPc = "sign_in"
    /\ mode = "md"
    /\ options_subject = NoSubject
    /\ subjects = <<>>
    /\ token = None
    /\ page = 1
    /\ subject_ids = <<>>
    /\ requested = <<>>
    /\ remote_enrolled \in PageLists
    /\ remote_last_page \in [1..MaxPage -> 0..MaxPage]
    /\ remote_subjects = <<>>
    /\ remote_steps = <<>>
    /\ disk = {}

NextPages ==
    \/ SignInReturn
    \/ SignInRaise
    \/ SubjectsPageReturn
    \/ SubjectsPageRaise

SpecPages == InitPages /\ [][NextPages]_vars

----------------------------------------------------------------------------
(* santize_path called, up to MaxApply times in a row, on any string of at *)
(* most MaxStrLen characters.                                              *)

InitSantize ==
    /\ InitIdle
    /\ InitLimiters
    /\ InitNoTasks
    /\ source \in Strings(PathChars)
    /\ path = source
    /\ applied = 0
    /\ link = <<>>
    /\ image_id = 0
    /\ filename = <<>>
    /\ imagePc = "none"

NextSantize == SantizePath

SpecSantize == InitSantize /\ [][NextSantize]_vars

(* download_image called on any link of at most MaxStrLen characters.      *)

InitImage ==
    /\ InitIdle
    /\ InitLimiters
    /\ InitNoTasks
    /\ source = <<>>
    /\ path = <<>>
    /\ applied = 0
    /\ link \in Strings(LinkChars)
    /\ image_id \in ImageIds
    /\ filename = <<>>
    /\ imagePc = "call"

NextImage ==
    \/ ImageCall
    \/ ImageReturn
    \/ ImageRaise

SpecImage == InitImage /\ [][NextImage]_vars

----------------------------------------------------------------------------
(* Claims about the limiter.                                               *)

\* Task t is between admission and release of limiter l: it sleeps inside
\* the limiter's wait or executes the wrapped unit.
Holds(t, l) ==
    \E i \in 1..Len(stack[t]) :
        /\ LimiterOf(stack[t][i]) = l
        /\ ~(i = Len(stack[t]) /\ pc[t] = "acquire")

Holders(l) == {t \in Tasks : Holds(t, l)}

\* C1: for a limiter constructed with calls_limit = N, at every instant at
\* most N wrapped calls are between admission and release, sleeping callers
\* included; the free permits are exactly the permits not held.
C1_AtMostLimitInFlight ==
    \A l \in Limiters :
        /\ Cardinality(Holders(l)) <= calls_limit[l]
        /\ semaphore[l] = calls_limit[l] - Cardinality(Holders(l))

\* C1's case: the limit is reached with one caller asleep in the limiter's
\* wait, one executing the unit, and a third caller kept waiting.
C1_Witness ==
    /\ calls_limit["unit"] = 2
    /\ Cardinality(Holders("unit")) = 2
    /\ \E a, b, c \in Tasks :
          /\ pc[a] = "sleeping"
          /\ pc[b] = "unit"
          /\ pc[c] = "acquire"

\* C2: no time window of length period contains more than calls_limit
\* completions of wrapped calls (stated of the window that ends now).
C2_AtMostLimitPerPeriod ==
    \A l \in Limiters : Len(recent[l]) <= calls_limit[l]

\* C3: when the wrapped unit raises, the limiter still appends the timestamp
\* now + period, exactly as for a unit that returned.
C3_FailureRecorded ==
    [][\A t \in Tasks :
          (pc[t] = "unit" /\ pc'[t] = "failed")
              => requests_finish_time'
                     = Record(requests_finish_time, LimiterOf(Top(stack[t])))
      ]_vars

----------------------------------------------------------------------------
(* Claims about the program.                                               *)

\* C4: subject walks and step renders are throttled by one and the same
\* limiter state, so the subject walks plus the step renders that hold
\* admission never exceed calls_limit.
C4_OneGateForWalksAndRenders ==
    Cardinality(Holders("download_subject"))
        + Cardinality(Holders("download_step")) <= DefaultCallsLimit

\* The function that materializes an asset of the given kind.
AssetFunction(kind) ==
    IF kind = "image" THEN "download_image" ELSE "download_document"

\* C5: every asset materialization passes through the rate limiter on its
\* own: while its fetch is in flight, the innermost admission its task holds
\* is the one acquired for that download_image or download_document call.
C5_AssetThroughLimiter ==
    \A t \in Tasks :
        pc[t] = "load_file"
            => /\ Top(stack[t])
                    = AssetFunction(CurrentAsset(step[t], rcur[t]).kind)
               /\ Holds(t, LimiterOf(Top(stack[t])))

\* C6: when a subject task fails the orchestrator keeps waiting: it has
\* ended only when every subject task has run to completion or failed.
C6_JoinAll ==
    mainPc \in {"returned", "raised"}
        => \A t \in Tasks : pc[t] \in {"done", "failed"}

IsPrefix(a, b) == Len(a) <= Len(b) /\ a = SubSeq(b, 1, Len(a))

RECURSIVE Concat(_)
Concat(ss) == IF ss = <<>> THEN <<>> ELSE Head(ss) \o Concat(Tail(ss))

Ids(steps) == [i \in 1..Len(steps) |-> steps[i].id]

\* The ids of the steps of sub that are not hidden and name chapter c, in
\* the order of the flat step list.
StepsOf(sub, c) ==
    Ids(SelectSeq(sub.steps, LAMBDA s : ~s.hidden /\ s.chapter_id = c))

\* The chapter ids of sub in the order of its chapters field (an id listed
\* again counts where it is listed first).
ChapterOrder(sub) ==
    LET chs   == sub.chapters
        first == {i \in 1..Len(chs) : \A j \in 1..(i - 1) : chs[j] # chs[i]}
        f[i \in 0..Len(chs)] ==
            IF i = 0 THEN <<>>
            ELSE IF i \in first THEN Append(f[i - 1], chs[i]) ELSE f[i - 1]
    IN f[Len(chs)]

\* The step ids of sub in the order a walk renders them.
RenderOrder(sub) ==
    LET order == ChapterOrder(sub)
    IN Concat([i \in 1..Len(order) |-> StepsOf(sub, order[i])])

Rendering(t) == pc[t] \in {"step_fetch", "load_file"}

\* C7: within one subject walk rendering is strictly sequential: the steps
\* are fetched in the order of the chapters field and, inside a chapter, of
\* its list; a fetch starts only after the previous step's file was written;
\* at most one render of the subject is in progress.
C7_SequentialWalk ==
    \A t \in Tasks :
        subject_id[t] \in DOMAIN remote_subjects =>
            LET order == RenderOrder(remote_subjects[subject_id[t]])
            IN /\ IsPrefix(fetched[t], order)
               /\ IsPrefix(written[t], fetched[t])
               /\ Len(fetched[t]) <= Len(written[t]) + 1
               /\ Rendering(t) => Len(fetched[t]) = Len(written[t]) + 1
               /\ Cardinality({i \in 1..Len(stack[t]) :
                                  stack[t][i] = "download_step"}) <= 1
               /\ pc[t] = "done" => written[t] = order

\* C7's case: two walks interleave, one rendering the second step of its
\* second chapter, the other between two steps of its chapter.
C7_Witness ==
    \E t, u \in Tasks :
        /\ t # u
        /\ Rendering(t)
        /\ cursor[t].ci = 2 /\ cursor[t].si = 2
        /\ Len(written[t]) = 2
        /\ pc[u] = "acquire"
        /\ Len(written[u]) = 1

\* The paths of subject sid on the disk d.
PathsOf(d, sid) == {p \in d : p[2] = sid}

\* C8: a failure of a step fetch or of an asset fetch is not caught by the
\* walk: the task ends in failure with that exception; afterwards it fetches
\* and writes nothing more, and no file is ever removed.
C8_StepFailureAbortsWalk ==
    [][\A t \in (DOMAIN pc) \cap (DOMAIN pc') :
          /\ error'[t] # None => pc'[t] = "failed"
          /\ pc[t] = "failed" =>
                /\ pc'[t] = "failed"
                /\ fetched'[t] = fetched[t]
                /\ written'[t] = written[t]
                /\ PathsOf(disk', subject_id[t]) = PathsOf(disk, subject_id[t])
          /\ disk \subseteq disk'
      ]_vars

\* C8's case: an asset fetch failed in a walk that had written a step file
\* before; the file is on disk, the failed step's file holds no content, and
\* the sibling walk goes on.
C8_Witness ==
    \E t, u \in Tasks :
        /\ pc[t] = "failed"
        /\ error[t] = "load_file"
        /\ Len(written[t]) = 1
        /\ Len(fetched[t]) = 2
        /\ \E c \in Range(chapters[t]) :
              StepFile(subject_id[t], c, written[t][1]) \in disk
        /\ Rendering(u)

\* The grouping of task t has been built.
Walking(t) ==
    pc[t] = "done" \/ (stack[t] # <<>> /\ Top(stack[t]) = "download_step")

\* C9: the grouping maps each chapter id of the chapters field to the ids of
\* exactly the steps that are not hidden and name that chapter, in the order
\* of the flat step list; hidden steps and steps of no chapter are in no list.
C9_Grouping ==
    \A t \in Tasks :
        Walking(t) =>
            LET sub == remote_subjects[subject_id[t]]
                m   == chapters_topics_mapper[t]
            IN /\ DOMAIN m = Range(sub.chapters)
               /\ \A c \in DOMAIN m : m[c] = StepsOf(sub, c)
               /\ \A i \in 1..Len(sub.steps) :
                     (sub.steps[i].hidden
                         \/ sub.steps[i].chapter_id \notin Range(sub.chapters))
                         => \A c \in DOMAIN m : sub.steps[i].id \notin Range(m[c])

\* C9's case: a subject with a visible step, a hidden step of the same
\* chapter, a step of an unknown chapter, and a chapter without steps.
C9_Witness ==
    \E t \in Tasks :
        /\ Walking(t)
        /\ remote_subjects[subject_id[t]].chapters = <<10, 20>>
        /\ remote_subjects[subject_id[t]].steps
              = <<StepRef(1, 10, FALSE), StepRef(2, 10, TRUE),
                  StepRef(3, 99, FALSE)>>
        /\ chapters_topics_mapper[t] = (10 :> <<1>>) @@ (20 :> <<>>)

\* The step-level part of the lines c: those before the first section.
StepLevel(c) ==
    LET secs == {i \in 1..Len(c) : c[i].kind = "section_title"}
    IN IF secs = {} THEN c
       ELSE SubSeq(c, 1, (CHOOSE i \in secs : \A j \in secs : i <= j) - 1)

\* The positions of the lines of kind k and id v in c.
Places(c, k, v) == {i \in 1..Len(c) : c[i] = Line(k, v)}

IsAssetLine(ln) == ln.kind \in {"image", "document"}

\* C10: in md mode the step-level part is: title, public text, an image per
\* public photo, private text, an image per private video, a link per
\* private link, a video link per private video, a document per private
\* document; each private video is there twice, as an image and later as a
\* video link; the assets are fetched in the order of their lines.
C10_StepLevelOrder ==
    \A t \in Tasks :
        mode = "md" =>
            /\ IsPrefix(SelectSeq(content[t], IsAssetLine), asset_log[t])
            /\ Len(asset_log[t])
                  <= Len(SelectSeq(content[t], IsAssetLine)) + 1
            /\ pc[t] = "load_file" =>
                  asset_log[t] = Append(SelectSeq(content[t], IsAssetLine),
                                        CurrentAsset(step[t], rcur[t]))
            /\ rcur[t].phase = "end" =>
                  asset_log[t] = SelectSeq(content[t], IsAssetLine)
            /\ rcur[t].phase = "end" =>
                  LET st == step[t]
                      c  == StepLevel(content[t])
                  IN /\ c = <<Line("title", 0), Line("h_public", 0),
                               Line("public_text", 0)>>
                            \o Lines("image", st.public_photos)
                            \o <<Line("h_private", 0),
                                 Line("private_text", 0)>>
                            \o Lines("image", st.private_videos)
                            \o Lines("link", st.private_links)
                            \o Lines("video", st.private_videos)
                            \o Lines("document", st.private_documents)
                     /\ \A v \in Range(st.private_videos) :
                           /\ Cardinality(Places(c, "image", v)) = 1
                           /\ Cardinality(Places(c, "video", v)) = 1
                           /\ \A i \in Places(c, "image", v),
                                 j \in Places(c, "video", v) : i < j

\* C10's case: a step with two entries in each list and a section, rendered
\* to the end in md mode.
C10_Witness ==
    \E t \in Tasks :
        /\ mode = "md"
        /\ rcur[t].phase = "end"
        /\ pc[t] = "done"
        /\ Len(step[t].public_photos) = 2
        /\ Len(step[t].private_videos) = 2
        /\ Len(step[t].private_links) = 2
        /\ Len(step[t].private_documents) = 2
        /\ Len(step[t].sections) = 1
        /\ Len(asset_log[t]) >= 6

\* The lines of c from its j-th section heading up to the next one.
SectionPart(c, j) ==
    LET heads == {i \in 1..Len(c) : c[i].kind = "section_title"}
        from  == CHOOSE i \in heads :
                     Cardinality({h \in heads : h <= i}) = j
        later == {h \in heads : h > from}
        to    == IF later = {} THEN Len(c)
                 ELSE (CHOOSE h \in later : \A g \in later : h <= g) - 1
    IN SubSeq(c, from, to)

\* The number of lines of the step-level part of a rendered step.
StepLevelLen(st) ==
    5 + Len(st.public_photos) + 2 * Len(st.private_videos)
      + Len(st.private_links) + Len(st.private_documents)

\* C11: in md mode the sections come after all step-level blocks, in array
\* order, each as its heading, its content paragraph unless the content is
\* null, an image per photo, a link per link, a video link per video and a
\* document per document; a section video gives exactly one video-link line
\* and is never materialized as an image.
C11_SectionOrder ==
    \A t \in Tasks :
        (mode = "md" /\ rcur[t].phase = "end") =>
            LET st == step[t]
                c  == content[t]
                n  == Len(st.sections)
            IN /\ Len(StepLevel(c)) = StepLevelLen(st)
               /\ Cardinality({i \in 1..Len(c) :
                                  c[i].kind = "section_title"}) = n
               /\ c = StepLevel(c)
                        \o Concat([j \in 1..n |-> SectionPart(c, j)])
               /\ \A j \in 1..n :
                     LET sec == st.sections[j]
                         p   == SectionPart(c, j)
                     IN /\ p = <<Line("section_title", j)>>
                               \o (IF sec.has_content
                                   THEN <<Line("section_content", j)>>
                                   ELSE <<>>)
                               \o Lines("image", sec.photos)
                               \o Lines("link", sec.links)
                               \o Lines("video", sec.videos)
                               \o Lines("document", sec.documents)
                        /\ \A v \in Range(sec.videos) :
                              /\ Cardinality(Places(p, "video", v)) = 1
                              /\ Places(p, "image", v) = {}
                              /\ Line("image", v) \notin Range(asset_log[t])
                              /\ AssetFile(subject_id[t], Line("image", v))
                                    \notin disk

\* C11's case: a step with step-level entries and two sections, the first
\* with null content and the second with content, both with a photo, a link,
\* a video and a document, rendered to the end in md mode.
C11_Witness ==
    \E t \in Tasks :
        /\ mode = "md"
        /\ pc[t] = "done"
        /\ rcur[t].phase = "end"
        /\ Len(step[t].private_documents) = 2
        /\ Len(step[t].sections) = 2
        /\ ~step[t].sections[1].has_content
        /\ step[t].sections[2].has_content
        /\ \A j \in 1..2 :
              /\ step[t].sections[j].photos # <<>>
              /\ step[t].sections[j].videos # <<>>
        /\ Len(SectionPart(content[t], 1)) = 5
        /\ Len(SectionPart(content[t], 2)) = 6

\* The items of a step record as the structured format holds them: one per
\* key, the keys ascending, the sections serialized the same way.
SortedItems(st) ==
    <<[key |-> "private_documents", value |-> st.private_documents],
      [key |-> "private_links", value |-> st.private_links],
      [key |-> "private_videos", value |-> st.private_videos],
      [key |-> "public_photos", value |-> st.public_photos],
      [key |-> "sections",
       value |-> [j \in 1..Len(st.sections) |->
                     <<[key |-> "has_content",
                        value |-> st.sections[j].has_content],
                       [key |-> "documents",
                        value |-> st.sections[j].documents],
                       [key |-> "links", value |-> st.sections[j].links],
                       [key |-> "photos", value |-> st.sections[j].photos],
                       [key |-> "videos",
                        value |-> st.sections[j].videos]>>]]>>

\* C12: in json mode rendering a step does none of the md traversal: no
\* asset is fetched or written whatever the step contains, and the only
\* output is the step file, holding the serialization of the whole fetched
\* step record with its keys sorted.
C12_JsonNoTraversal ==
    \A t \in Tasks :
        mode = "json" =>
            /\ pc[t] # "load_file"
            /\ asset_log[t] = <<>>
            /\ rcur[t].phase \in {"idle", "end"}
            /\ \A p \in disk : p[1] # "asset"
            /\ pc[t] = "done" =>
                  /\ content[t]
                        = <<Line("json",
                                 SortedItems(remote_steps[step_id[t]]))>>
                  /\ disk = {StepFile(subject_id[t], chapter_path[t],
                                      step_id[t])}

\* C12's case: a step with photos, videos, links, documents and two sections
\* with assets of their own, rendered in json mode.
C12_Witness ==
    \E t \in Tasks :
        /\ mode = "json"
        /\ pc[t] = "done"
        /\ Len(step[t].public_photos) = 2
        /\ Len(step[t].private_videos) = 2
        /\ Len(step[t].private_documents) = 2
        /\ Len(step[t].sections) = 2
        /\ \A j \in 1..2 : step[t].sections[j].photos # <<>>
        /\ content[t] # <<>>

\* Every response of the subject list reports last_page = L.
ConstantLastPage(L) ==
    \A p \in DOMAIN remote_last_page : remote_last_page[p] = L

\* The pages 1, 2, ..., n.
PagesUpTo(n) == [p \in 1..n |-> p]

\* C13: when the platform reports a constant last_page = L >= 1, the
\* enumeration requests exactly the pages 1, ..., L, each once and in
\* increasing order, and returns the ids of those pages concatenated in page
\* order, the ids of a page in the order of its items.
C13_PagesInOrder ==
    \A L \in 1..MaxPage :
        ConstantLastPage(L) =>
            /\ IsPrefix(requested, PagesUpTo(L))
            /\ mainPc = "list_subjects" =>
                  /\ requested = PagesUpTo(page)
                  /\ subject_ids
                        = Concat([p \in 1..(page - 1) |-> remote_enrolled[p]])
            /\ mainPc = "gather" =>
                  /\ requested = PagesUpTo(L)
                  /\ subjects = Concat([p \in 1..L |-> remote_enrolled[p]])

\* C13's case: three pages of subjects, two subjects on the first, every
\* response reporting last_page = 3; the enumeration has returned.
C13_Witness ==
    /\ ConstantLastPage(3)
    /\ mainPc = "gather"
    /\ requested = <<1, 2, 3>>
    /\ Len(remote_enrolled[1]) = 2
    /\ \A p \in 1..3 : remote_enrolled[p] # <<>>
    /\ Len(subjects) >= 4

\* C14: a failure of sign-in is fatal and comes before any subject work:
\* unless sign_in has returned a token, no page of the subject list has been
\* requested, no subject task exists (so no subject, step or asset fetch is
\* issued), nothing is on the disk, and main() is at sign-in or has ended
\* with its exception.
C14_SignInFirst ==
    token = None =>
        /\ requested = <<>>
        /\ Tasks = {}
        /\ disk = {}
        /\ mainPc \in {"sign_in", "raised"}

\* C14's case: sign_in raised and main() has ended with the exception.
C14_Witness ==
    /\ token = None
    /\ mainPc = "raised"
    /\ options_subject = NoSubject

----------------------------------------------------------------------------
(* Claims about the text functions.                                        *)

\* The characters of [A-Za-z0-9_.-] and the space.
AsciiAllowed == AsciiLetters \cup AsciiDigits \cup {"_", ".", "-", " "}

\* The characters santize_path keeps: those of AsciiAllowed and the letters
\* and digits outside ASCII.
Kept == AsciiAllowed \cup UnicodeLetters \cup UnicodeDigits

\* The string t is s with '_' at exactly the positions of s that hold a
\* character outside keep, and of the same length.
ReplacedOutside(s, t, keep) ==
    /\ Len(t) = Len(s)
    /\ \A i \in 1..Len(s) :
          /\ s[i] \in keep => t[i] = s[i]
          /\ s[i] \notin keep => (t[i] = "_" /\ t[i] # s[i])

\* C15, as claimed: santize_path(s) has the length of s and differs from s
\* exactly at the positions holding a character outside [A-Za-z0-9_.-] and
\* space, where it has '_'; letters and digits outside ASCII are replaced.
C15_AsciiOnlyKept ==
    applied = 1 => ReplacedOutside(source, path, AsciiAllowed)

\* C15, amended: santize_path(s) has the length of s and differs from s
\* exactly at the positions holding a character that is neither a letter or
\* digit of any script, nor '_', '.', '-' or space, where it has '_'.
C15_WordCharsKept ==
    applied = 1 => ReplacedOutside(source, path, Kept)

\* C15's case: a string with a letter outside ASCII, an ASCII letter and a
\* slash has been sanitized: only the slash is replaced.
C15_Witness ==
    /\ applied = 1
    /\ source = <<"U+044F", "a", "/">>
    /\ path = <<"U+044F", "a", "_">>

\* C16: the sanitizer is idempotent: sanitizing the result of santize_path
\* again gives that same result.
C16_Idempotent ==
    [][(applied >= 1 /\ applied' = applied + 1) => path' = path]_vars

\* C16's case: a string with two prohibited characters sanitized twice.
C16_Witness ==
    /\ applied = 2
    /\ Cardinality({i \in 1..Len(source) : source[i] \in {"/", "U+20AC"}}) >= 2
    /\ path # source

\* The text of the part s after its last '.', if s holds a '.'.
AfterLastDot(s) ==
    LET dots == {i \in 1..Len(s) : s[i] = "."}
    IN SubSeq(s, (CHOOSE i \in dots : \A j \in dots : j <= i) + 1, Len(s))

\* The last '/'-separated segment of the string s.
LastSegment(s) ==
    LET slashes == {i \in 1..Len(s) : s[i] = "/"}
    IN IF slashes = {} THEN s
       ELSE SubSeq(s, (CHOOSE i \in slashes : \A j \in slashes : j <= i) + 1,
                   Len(s))

\* The segment s has an extension: a '.' with text after the last one.
HasExtension(s) == "." \in Range(s) /\ AfterLastDot(s) # <<>>

\* C17: download_image returns photo_{id}.{ext} when the last '/'-separated
\* segment of the link has an extension and exactly photo_{id} otherwise;
\* the filename never ends with a bare dot, also for a link whose last
\* segment ends in '.'.
C17_ImageFilename ==
    imagePc = "returned" =>
        LET seg == LastSegment(link)
        IN /\ filename = IF HasExtension(seg)
                         THEN Photo \o Str(image_id) \o <<".">>
                                  \o AfterLastDot(seg)
                         ELSE Photo \o Str(image_id)
           /\ Last(filename) # "."

----------------------------------------------------------------------------
(* More claims about the limiter.                                          *)

\* The sequence q of timestamps is in non-decreasing order.
NonDecreasing(q) == \A i \in 1..(Len(q) - 1) : q[i] <= q[i + 1]

\* C18: a caller that enters the limiter while the queue holds at least
\* calls_limit timestamps does not start its unit before the oldest of them
\* has elapsed, and that timestamp is removed only after the wait: it is
\* still in the queue while the caller waits; a unit that returned appends
\* its completion time + period at the tail, and the queue is always in
\* non-decreasing order.
C18_WaitThenPop ==
    [][\A t \in (DOMAIN pc) \cap (DOMAIN pc') :
          stack[t] # <<>> =>
              LET l == LimiterOf(Top(stack[t]))
                  q == requests_finish_time[l]
              IN /\ (pc[t] = "acquire" /\ pc'[t] = "sleeping") =>
                        /\ requests_finish_time'[l] = q
                        /\ Head(q) = sleepUntil'[t]
                 /\ (pc[t] = "sleeping" /\ pc'[t] # "sleeping") =>
                        /\ now >= sleepUntil[t]
                        /\ requests_finish_time'[l] = Tail(q)
                 /\ (pc[t] = "acquire" /\ pc'[t] = "unit" /\ MustPop(l)) =>
                        now > Head(q)
                 /\ (pc[t] = "unit" /\ pc'[t] = "idle") =>
                        requests_finish_time'[l] = Append(q, now + period[l])
                 /\ NonDecreasing(requests_finish_time'[l])
      ]_vars

\* C19: for a limiter with calls_limit = N, the length of the timestamp
\* queue plus the number of callers holding admission is at most 2N - 1 in
\* every reachable state, so the queue never holds more than 2N - 1
\* timestamps (under concurrent callers it can hold more than N).
C19_QueuePlusHolders ==
    \A l \in Limiters :
        /\ Len(requests_finish_time[l]) + Cardinality(Holders(l))
              <= 2 * calls_limit[l] - 1
        /\ Len(requests_finish_time[l]) <= 2 * calls_limit[l] - 1

\* C19's case: a limiter with calls_limit = 2 whose queue holds 3
\* timestamps, more than calls_limit, while no caller holds admission.
C19_Witness ==
    /\ calls_limit["unit"] = 2
    /\ Len(requests_finish_time["unit"]) = 3
    /\ Holders("unit") = {}

\* Task t has a network request in flight.
InFlight(t) == pc[t] \in {"subject_fetch", "step_fetch", "load_file"}

\* C20: once the subject tasks are launched, the network requests in flight
\* over all of them (subject, step and asset fetches together) are at most
\* the default calls_limit of 5: a task with a request in flight holds the
\* admission of its subject walk, and at most 5 walks are admitted.
C20_AtMostFiveInFlight ==
    /\ Cardinality({t \in Tasks : InFlight(t)}) <= DefaultCallsLimit
    /\ \A t \in Tasks : InFlight(t) => Holds(t, "download_subject")
    /\ Cardinality(Holders("download_subject")) <= DefaultCallsLimit

\* C20's case: six subject tasks, five with a request in flight (one of
\* them an asset fetch inside a step render), the sixth kept waiting for
\* the admission of its walk.
C20_Witness ==
    /\ Cardinality(Tasks) = 6
    /\ Cardinality({t \in Tasks : InFlight(t)}) = 5
    /\ \E t \in Tasks : pc[t] = "load_file"
    /\ \E t \in Tasks :
          /\ pc[t] = "acquire"
          /\ stack[t] = <<"download_subject">>
    /\ semaphore["download_subject"] = 0

----------------------------------------------------------------------------
(* Claims about progress.                                                  *)

\* Task t has been launched.
Launched(t) == t \in DOMAIN pc

\* C21: for more subjects than calls_limit, when every network call returns,
\* every launched subject task is eventually admitted to its walk and
\* eventually finishes: a walk that holds its admission while each of its
\* step renders acquires admission never deadlocks.
C21_EveryTaskFinishes ==
    <>(\A t \in 1..NumCrowd : Launched(t) /\ pc[t] = "done")

\* C21's case: five walks hold every admission of their limiter, each
\* waiting for the admission of its step render, the sixth walk waiting.
C21_Witness ==
    /\ Cardinality(Tasks) = 6
    /\ Cardinality({t \in Tasks :
                        /\ stack[t] = <<"download_subject", "download_step">>
                        /\ pc[t] = "acquire"}) = 5
    /\ \E t \in Tasks : pc[t] = "acquire" /\ stack[t] = <<"download_subject">>
    /\ semaphore["download_subject"] = 0

\* The response to the request of page p reports last_page = p.
ReportsItself(p) == p \in DOMAIN remote_last_page /\ remote_last_page[p] = p

\* C22: the enumeration stops exactly at the first requested page whose
\* response reports last_page equal to that page; when no response reports
\* the page just requested (last_page = 0, or a last_page below the page),
\* it never returns and goes on requesting the next page, one after the
\* other (here: up to page MaxPage).
C22_StopsOnlyAtReportedPage ==
    /\ [](mainPc = "gather" =>
             /\ ReportsItself(page)
             /\ \A q \in 1..(page - 1) : ~ReportsItself(q)
             /\ requested = PagesUpTo(page))
    /\ [](mainPc = "list_subjects" =>
             /\ requested = PagesUpTo(page)
             /\ \A q \in 1..(page - 1) : ~ReportsItself(q)
             /\ (~ReportsItself(page) /\ page < MaxPage)
                    => ENABLED (SubjectsPageReturn /\ page' = page + 1))
    /\ [][(mainPc = "list_subjects" /\ mainPc' # "raised") =>
             IF ReportsItself(page)
             THEN mainPc' = "gather" /\ page' = page
             ELSE /\ mainPc' = "list_subjects"
                  /\ page' = page + 1
                  /\ requested' = Append(requested, page + 1)
         ]_vars

\* C22's case: every response reports last_page = 0; the enumeration has
\* requested every page up to MaxPage and has not returned.
C22_Witness ==
    /\ \A p \in DOMAIN remote_last_page : remote_last_page[p] = 0
    /\ remote_last_page # <<>>
    /\ mainPc = "list_subjects"
    /\ page = MaxPage
    /\ requested = PagesUpTo(MaxPage)

=============================================================================
